---- MODULE Spec2Model ----
(***************************************************************************)
(* A model of the WhatsApp profile synthesizer: the identifier validator,  *)
(* the hash-driven field synthesis, batch assembly, the export dispatcher   *)
(* with its encoders, and the command-line driver.                          *)
(*                                                                          *)
(* Text is a sequence of tokens.  A token is one character ("7", " ", "/")  *)
(* or an opaque chunk of characters that no operation looks inside          *)
(* ("Living my best life!", ".jpg").                                        *)
(***************************************************************************)
EXTENDS Integers, Sequences, FiniteSets, TLC

VARIABLES
    entry,            \* the function the caller invoked
    pc,               \* position inside that function
    raw,              \* _validate_number: its argument
    vresult,          \* _validate_number: its outcome
    numbers,          \* build_profiles: the identifiers to process
    media_base_url,   \* build_profiles: base URL of profile pictures
    idx,              \* build_profiles: index of the next identifier
    profiles,         \* build_profiles: the list being assembled
    diagnostics,      \* build_profiles: the warnings logged so far
    refTimes,         \* the clock reading each profile was synthesized at
    now,              \* the wall clock (datetime.now(timezone.utc))
    ticks,            \* how many times the wall clock has advanced
    sha256,           \* the hash function, as a table over identifiers
    records,          \* export_profiles: its records argument
    output_path,      \* export_profiles / main: the destination path
    fmt,              \* export_profiles: its fmt argument
    files,            \* the files written so far, in order
    dirs,             \* the directories that exist
    openpyxl,         \* whether the spreadsheet library is installed
    writable,         \* whether the destination can be written
    export_error,     \* the exception export_profiles raised, or NoError
    argFormat,        \* main: the --format argument
    settingsFile,     \* main: the settings file on disk
    settings,         \* main: the loaded settings
    inputFile,        \* main: the input file on disk
    inputRead,        \* main: whether the input file has been opened
    output_format,    \* main: the chosen output format
    status,           \* main: the returned completion status
    crashed           \* main: the exception that escaped it, or NoError

vars == <<entry, pc, raw, vresult, numbers, media_base_url, idx, profiles,
          diagnostics, refTimes, now, ticks, sha256, records, output_path, fmt,
          files, dirs, openpyxl, writable, export_error, argFormat,
          settingsFile, settings, inputFile, inputRead, output_format,
          status, crashed>>

validateVars == <<raw, vresult>>
batchVars == <<numbers, media_base_url, idx, profiles, diagnostics, refTimes>>
worldVars == <<sha256, openpyxl, writable>>
exportArgVars == <<records, fmt>>
fsVars == <<files, dirs, export_error>>
mainInVars == <<argFormat, settingsFile, inputFile>>
mainVars == <<settings, inputRead, output_format, status, crashed>>

NoError == "NoError"
\* main has not returned / has returned code.
NotReturned == [returned |-> FALSE, code |-> 0]
Returned(code) == [returned |-> TRUE, code |-> code]

\* ------------------------------------------------------------------ bounds

\* The longest run of digits an identifier under validation is built from.
MaxDigits == 22
\* The longest batch handed to build_profiles.
MaxBatch == 3
\* How many times the wall clock advances during one batch.
MaxTicks == 2

\* ------------------------------------------------------------------ text

AsciiDigits == {"0", "1", "2", "3", "4", "5", "6", "7", "8", "9"}
\* Decimal digits outside ASCII (Unicode category Nd), e.g. U+0661 and U+0967.
OtherDecimals == {"ARABIC-INDIC DIGIT ONE", "DEVANAGARI DIGIT ONE"}
Whitespace == {" ", "\t", "\n"}

\* str.strip(): drop leading and trailing whitespace.
RECURSIVE lstrip_ws(_)
lstrip_ws(s) ==
    IF s # <<>> /\ Head(s) \in Whitespace THEN lstrip_ws(Tail(s)) ELSE s

RECURSIVE rstrip_ws(_)
rstrip_ws(s) ==
    IF s # <<>> /\ s[Len(s)] \in Whitespace
    THEN rstrip_ws(SubSeq(s, 1, Len(s) - 1))
    ELSE s

strip(s) == rstrip_ws(lstrip_ws(s))

\* str.rstrip('/'): drop every trailing slash.
RECURSIVE rstrip_slash(_)
rstrip_slash(s) ==
    IF s # <<>> /\ s[Len(s)] = "/"
    THEN rstrip_slash(SubSeq(s, 1, Len(s) - 1))
    ELSE s

\* ------------------------------------------------------- _validate_number

\* re.fullmatch(r"\d+", cleaned): a str pattern, so \d is any Unicode
\* decimal digit.
fullmatch_digits(cleaned) ==
    /\ cleaned # <<>>
    /\ \A i \in 1..Len(cleaned) : cleaned[i] \in AsciiDigits \cup OtherDecimals

Accepted(value) == [ok |-> TRUE, value |-> value, error |-> NoError]
Rejected(kind) == [ok |-> FALSE, value |-> <<>>, error |-> kind]

\* The four ValueErrors, named by the rule that raised them.
_validate_number(r) ==
    LET cleaned == strip(r) IN
    IF cleaned = <<>> THEN Rejected("Empty")
    ELSE IF ~fullmatch_digits(cleaned) THEN Rejected("NonDigit")
    ELSE IF Len(cleaned) < 6 THEN Rejected("TooShort")
    ELSE IF Len(cleaned) > 20 THEN Rejected("TooLong")
    ELSE Accepted(cleaned)

\* The identifiers the validator is exercised on: a run of n digits, one
\* position of it possibly replaced by another character, padded with
\* whitespace on either side.
Digits(n) == [i \in 1..n |-> IF i % 2 = 1 THEN "7" ELSE "0"]
Replace(s, k, c) == [i \in 1..Len(s) |-> IF i = k THEN c ELSE s[i]]
Paddings == {<<>>, <<" ">>, <<"\t", "\n">>}
Intruders == {"a", " ", "ARABIC-INDIC DIGIT ONE"}
Bodies ==
    {Digits(n) : n \in 0..MaxDigits}
      \cup {Replace(Digits(n), k, c) : n \in 1..MaxDigits, k \in {1, 3, 6, 20, 21}, c \in Intruders}
RawInputs == {l \o b \o r : l \in Paddings, b \in Bodies, r \in Paddings}

\* --------------------------------------------------------------- datetime

\* A datetime is [day, sec, us]: days since 1970-01-01, second of the day,
\* microsecond of the second, always in UTC.

DigitChars == <<"0", "1", "2", "3", "4", "5", "6", "7", "8", "9">>
DigitVal(c) == (CHOOSE d \in 1..10 : DigitChars[d] = c) - 1

\* n as w zero-padded decimal digits.
RECURSIVE Dec(_, _)
Dec(n, w) ==
    IF w = 0 THEN <<>> ELSE Dec(n \div 10, w - 1) \o <<DigitChars[(n % 10) + 1]>>

RECURSIVE Num(_)
Num(s) == IF s = <<>> THEN 0 ELSE 10 * Num(SubSeq(s, 1, Len(s) - 1)) + DigitVal(s[Len(s)])

IsNum(s) == \A i \in 1..Len(s) : s[i] \in AsciiDigits

\* The proleptic Gregorian calendar, as datetime computes it.
days_from_civil(y, m, d) ==
    LET yy  == IF m <= 2 THEN y - 1 ELSE y
        era == yy \div 400
        yoe == yy - era * 400
        mp  == (m + 9) % 12
        doy == (153 * mp + 2) \div 5 + d - 1
        doe == yoe * 365 + yoe \div 4 - yoe \div 100 + doy
    IN  era * 146097 + doe - 719468

civil_from_days(z) ==
    LET zz  == z + 719468
        era == zz \div 146097
        doe == zz - era * 146097
        yoe == (doe - doe \div 1460 + doe \div 36524 - doe \div 146096) \div 365
        doy == doe - (365 * yoe + yoe \div 4 - yoe \div 100)
        mp  == (5 * doy + 2) \div 153
        d   == doy - (153 * mp + 2) \div 5 + 1
        m   == IF mp < 10 THEN mp + 3 ELSE mp - 9
        y   == yoe + era * 400 + (IF m <= 2 THEN 1 ELSE 0)
    IN  [year |-> y, month |-> m, day |-> d]

IsLeap(y) == (y % 4 = 0 /\ y % 100 # 0) \/ y % 400 = 0
DaysInMonth(y, m) ==
    IF m = 2 THEN (IF IsLeap(y) THEN 29 ELSE 28)
    ELSE IF m \in {4, 6, 9, 11} THEN 30 ELSE 31

\* dt - timedelta(days=days, hours=hours, minutes=minutes)
minus_timedelta(dt, days, hours, minutes) ==
    LET secs == dt.sec - (hours * 3600 + minutes * 60) IN
    [day |-> dt.day - days + secs \div 86400, sec |-> secs % 86400, us |-> dt.us]

\* dt.replace(microsecond=0)
replace_microsecond_0(dt) == [dt EXCEPT !.us = 0]

\* dt.isoformat() of an aware UTC datetime: the fraction only when the
\* microsecond is not zero, then the offset (one token).
isoformat(dt) ==
    LET c == civil_from_days(dt.day) IN
    Dec(c.year, 4) \o <<"-">> \o Dec(c.month, 2) \o <<"-">> \o Dec(c.day, 2)
      \o <<"T">> \o Dec(dt.sec \div 3600, 2) \o <<":">> \o Dec((dt.sec \div 60) % 60, 2)
      \o <<":">> \o Dec(dt.sec % 60, 2)
      \o (IF dt.us # 0 THEN <<".">> \o Dec(dt.us, 6) ELSE <<>>)
      \o <<"+00:00">>

\* text.replace("+00:00", "Z")
replace_offset_Z(text) == [i \in 1..Len(text) |-> IF text[i] = "+00:00" THEN "Z" ELSE text[i]]

\* utils_time.current_utc_iso()
current_utc_iso(t) == replace_offset_Z(isoformat(replace_microsecond_0(t)))

NoDatetime == [ok |-> FALSE, dt |-> [day |-> 0, sec |-> 0, us |-> 0]]

\* datetime.fromisoformat on "YYYY-MM-DDTHH:MM:SS[.ffffff]+00:00"; anything
\* else of the texts used here raises ValueError.
fromisoformat(v) ==
    LET n == Len(v)
        shaped ==
            /\ n \in {20, 27}
            /\ v[5] = "-" /\ v[8] = "-" /\ v[11] = "T" /\ v[14] = ":" /\ v[17] = ":"
            /\ v[n] = "+00:00"
            /\ IsNum(SubSeq(v, 1, 4)) /\ IsNum(SubSeq(v, 6, 7)) /\ IsNum(SubSeq(v, 9, 10))
            /\ IsNum(SubSeq(v, 12, 13)) /\ IsNum(SubSeq(v, 15, 16)) /\ IsNum(SubSeq(v, 18, 19))
            /\ n = 27 => (v[20] = "." /\ IsNum(SubSeq(v, 21, 26)))
    IN  IF ~shaped THEN NoDatetime
        ELSE LET y  == Num(SubSeq(v, 1, 4))
                 mo == Num(SubSeq(v, 6, 7))
                 d  == Num(SubSeq(v, 9, 10))
                 hh == Num(SubSeq(v, 12, 13))
                 mi == Num(SubSeq(v, 15, 16))
                 ss == Num(SubSeq(v, 18, 19))
                 us == IF n = 27 THEN Num(SubSeq(v, 21, 26)) ELSE 0
             IN  IF /\ y >= 1 /\ mo \in 1..12 /\ d >= 1 /\ d <= DaysInMonth(y, mo)
                    /\ hh < 24 /\ mi < 60 /\ ss < 60
                 THEN [ok |-> TRUE,
                       dt |-> [day |-> days_from_civil(y, mo, d),
                               sec |-> hh * 3600 + mi * 60 + ss, us |-> us]]
                 ELSE NoDatetime

\* utils_time.parse_iso_datetime: None when parsing fails.
parse_iso_datetime(value) ==
    LET v == IF value # <<>> /\ value[Len(value)] = "Z"
             THEN SubSeq(value, 1, Len(value) - 1) \o <<"+00:00">>
             ELSE value
    IN  fromisoformat(v)

\* ------------------------------------------------------------ synthesis

ABOUT_TEMPLATES ==
    << <<"Living my best life!">>,
       <<"Available on WhatsApp only.">>,
       <<"Work hard, dream big.">>,
       <<"Stay positive, work hard, make it happen.">>,
       <<"SPARKLES", " Hustle in silence. ", "SPARKLES">>,
       <<"Just another human on the internet.">>,
       <<"Business inquiries only.">>,
       <<"Blessed and grateful.">> >>

HexChars == <<"0", "1", "2", "3", "4", "5", "6", "7", "8", "9", "a", "b", "c", "d", "e", "f">>
HexVal(c) == (CHOOSE d \in 1..16 : HexChars[d] = c) - 1

\* int(text, 16)
RECURSIVE int16(_)
int16(s) == IF s = <<>> THEN 0 ELSE 16 * int16(SubSeq(s, 1, Len(s) - 1)) + HexVal(s[Len(s)])

\* hash_hex[a:b], a Python slice
Slice(h, a, b) == SubSeq(h, a + 1, b)

\* As _deterministic_datetime, the microseconds of the clock kept.
_deterministic_datetime_keeps_microseconds(hash_hex, t) ==
    LET days_ago == int16(Slice(hash_hex, 0, 4)) % 365
        hours    == int16(Slice(hash_hex, 4, 6)) % 24
        minutes  == int16(Slice(hash_hex, 6, 8)) % 60
    IN  minus_timedelta(t, days_ago, hours, minutes)

\* Reads the wall clock t.
_deterministic_datetime(hash_hex, t) ==
    LET days_ago == int16(Slice(hash_hex, 0, 4)) % 365
        hours    == int16(Slice(hash_hex, 4, 6)) % 24
        minutes  == int16(Slice(hash_hex, 6, 8)) % 60
    IN  replace_microsecond_0(minus_timedelta(t, days_ago, hours, minutes))

_deterministic_choice(hash_hex, templates) ==
    templates[(int16(Slice(hash_hex, 8, 12)) % Len(templates)) + 1]

\* hashlib.sha256(number.encode("utf-8")).hexdigest(): the table sha256 holds
\* the first 16 hex characters of the digest of each identifier (no later
\* character is ever read).
_hash_number(number) == sha256[number]

\* As _build_profile_fields, the picture URL built for every profile.
_build_profile_fields_always_picture(number_validated, url, t) ==
    LET h == _hash_number(number_validated)
        is_registered == int16(Slice(h, 12, 14)) % 3 # 0
    IN  [number |-> number_validated,
         is_registered |-> is_registered,
         profile_picture |-> rstrip_slash(url) \o <<"/">> \o Slice(h, 0, 16) \o <<".jpg">>,
         about |-> IF is_registered THEN _deterministic_choice(h, ABOUT_TEMPLATES) ELSE <<>>,
         about_last_updated |-> replace_offset_Z(isoformat(_deterministic_datetime(h, t))),
         account_type |-> IF int16(Slice(h, 14, 16)) % 5 = 0 THEN <<"business">> ELSE <<"personal">>]

\* The profile _build_profile returns for a validated number.
_build_profile_fields(number_validated, url, t) ==
    LET h == _hash_number(number_validated)
        is_registered == int16(Slice(h, 12, 14)) % 3 # 0
        account_type == IF int16(Slice(h, 14, 16)) % 5 = 0 THEN <<"business">> ELSE <<"personal">>
        about == IF is_registered THEN _deterministic_choice(h, ABOUT_TEMPLATES) ELSE <<>>
        about_dt == _deterministic_datetime(h, t)
        about_last_updated == replace_offset_Z(isoformat(about_dt))
        profile_picture ==
            IF is_registered
            THEN rstrip_slash(url) \o <<"/">> \o Slice(h, 0, 16) \o <<".jpg">>
            ELSE <<>>
    IN  [number |-> number_validated,
         is_registered |-> is_registered,
         profile_picture |-> profile_picture,
         about |-> about,
         about_last_updated |-> about_last_updated,
         account_type |-> account_type]

\* _build_profile: the validator's failure, or the profile.
_build_profile(number, url, t) ==
    LET v == _validate_number(number) IN
    IF v.ok
    THEN [ok |-> TRUE, error |-> NoError, profile |-> _build_profile_fields(v.value, url, t)]
    ELSE [ok |-> FALSE, error |-> v.error, profile |-> <<>>]

\* ------------------------------------------------------------ dictionaries

\* A Python value is tagged with its type; v is its str().
PyStr(text) == [t |-> "str", v |-> text]
PyBool(b) == [t |-> "bool", v |-> IF b THEN <<"True">> ELSE <<"False">>]
PyNone == [t |-> "NoneType", v |-> <<"None">>]
PyInt(digits) == [t |-> "int", v |-> digits]

\* A dict is the sequence of its (key, value) items in insertion order.
Keys(d) == [i \in 1..Len(d) |-> d[i][1]]
KeySet(d) == {d[i][1] : i \in 1..Len(d)}
Get(d, k) == d[CHOOSE i \in 1..Len(d) : d[i][1] = k][2]

\* WhatsAppProfile.to_dict(): asdict keeps the order of the dataclass fields.
to_dict(p) ==
    << <<"number", PyStr(p.number)>>,
       <<"is_registered", PyBool(p.is_registered)>>,
       <<"profile_picture", PyStr(p.profile_picture)>>,
       <<"about", PyStr(p.about)>>,
       <<"about_last_updated", PyStr(p.about_last_updated)>>,
       <<"account_type", PyStr(p.account_type)>> >>

\* ---------------------------------------------------------- build_profiles

\* As BuildBody, the loop left at the first identifier that fails.
BuildBody_stops_at_failure ==
    LET r == _build_profile(numbers[idx], media_base_url, now) IN
    /\ profiles' = IF r.ok THEN Append(profiles, to_dict(r.profile)) ELSE profiles
    /\ refTimes' = IF r.ok THEN Append(refTimes, now) ELSE refTimes
    /\ diagnostics' =
         IF r.ok THEN diagnostics
         ELSE Append(diagnostics, [input |-> numbers[idx], reason |-> r.error])
    /\ idx' = IF r.ok THEN idx + 1 ELSE Len(numbers) + 1

\* One pass of the loop body: the profile is appended, or the exception is
\* caught and logged as a warning naming the raw input and the reason.
BuildBody ==
    LET r == _build_profile(numbers[idx], media_base_url, now) IN
    /\ profiles' = IF r.ok THEN Append(profiles, to_dict(r.profile)) ELSE profiles
    /\ refTimes' = IF r.ok THEN Append(refTimes, now) ELSE refTimes
    /\ diagnostics' =
         IF r.ok THEN diagnostics
         ELSE Append(diagnostics, [input |-> numbers[idx], reason |-> r.error])
    /\ idx' = idx + 1

BuildStep ==
    /\ pc = "build_profiles"
    /\ idx <= Len(numbers)
    /\ BuildBody
    /\ UNCHANGED <<entry, pc, validateVars, numbers, media_base_url, now, ticks,
                   worldVars, exportArgVars, output_path, fsVars, mainInVars, mainVars>>

\* The wall clock advances while the batch is assembled.
ClockStep == [sec |-> 86399, us |-> 500000]
Advance(t) ==
    LET us == t.us + ClockStep.us
        sec == t.sec + ClockStep.sec + us \div 1000000
    IN  [day |-> t.day + sec \div 86400, sec |-> sec % 86400, us |-> us % 1000000]

Tick ==
    /\ pc = "build_profiles"
    /\ ticks < MaxTicks
    /\ now' = Advance(now)
    /\ ticks' = ticks + 1
    /\ UNCHANGED <<entry, pc, validateVars, batchVars, worldVars, exportArgVars,
                   output_path, fsVars, mainInVars, mainVars>>

\* ------------------------------------------------------------------ paths

\* A path is [dir, name]: the parent directory and the file name, the name
\* split at its dots ("out.txt" is <<"out", "txt">>, ".hidden" is
\* <<"", "hidden">>, the empty name is <<>>).

\* str.lower() / str.upper(), token by token.
lower_token(c) ==
    CASE c = "CSV" -> "csv" [] c = "JSON" -> "json" [] c = "Excel" -> "excel"
      [] c = "XLSX" -> "xlsx" [] c = "None" -> "none" [] c = "INFO" -> "info"
      [] OTHER -> c
upper_token(c) ==
    CASE c = "debug" -> "DEBUG" [] c = "info" -> "INFO" [] c = "basic_format" -> "BASIC_FORMAT"
      [] OTHER -> c
lower(text) == [i \in 1..Len(text) |-> lower_token(text[i])]
upper(text) == [i \in 1..Len(text) |-> upper_token(text[i])]

\* PurePath.suffix: the part of the name from its last dot, unless that dot
\* is the first or the last character of the name; <<>> when there is none.
suffix(path) ==
    LET n == Len(path.name) IN
    IF /\ n >= 2
       /\ path.name[n] # ""
       /\ (n >= 3 \/ path.name[1] # "")
    THEN <<path.name[n]>>
    ELSE <<>>

\* PurePath.with_suffix(".xlsx"): ValueError on an empty name.
with_suffix_xlsx(path) ==
    IF path.name = <<>> THEN [ok |-> FALSE, path |-> path]
    ELSE IF suffix(path) = <<>>
         THEN [ok |-> TRUE, path |-> [path EXCEPT !.name = Append(path.name, "xlsx")]]
         ELSE [ok |-> TRUE, path |-> [path EXCEPT !.name[Len(path.name)] = "xlsx"]]

\* ------------------------------------------------------------- exporters

SUPPORTED_FORMATS == {<<"json">>, <<"csv">>, <<"xml">>, <<"html">>, <<"excel">>}

Range(q) == {q[i] : i \in 1..Len(q)}
Has(d, k) == k \in KeySet(d)

RECURSIVE AppendNewKeys(_, _)
AppendNewKeys(fieldnames, keys) ==
    IF keys = <<>> THEN fieldnames
    ELSE AppendNewKeys(IF Head(keys) \in Range(fieldnames) THEN fieldnames
                       ELSE Append(fieldnames, Head(keys)),
                       Tail(keys))

RECURSIVE FieldnamesFrom(_, _)
FieldnamesFrom(fieldnames, recs) ==
    IF recs = <<>> THEN fieldnames
    ELSE FieldnamesFrom(AppendNewKeys(fieldnames, Keys(Head(recs))), Tail(recs))

_get_fieldnames(recs) == FieldnamesFrom(<<>>, recs)

\* "" if value is None else str(value)
text_of(value) == IF value.t = "NoneType" THEN <<>> ELSE value.v

\* html.escape
escape_token(c) ==
    CASE c = "&" -> "&amp;" [] c = "<" -> "&lt;" [] c = ">" -> "&gt;"
      [] c = "\"" -> "&quot;" [] c = "'" -> "&#x27;" [] OTHER -> c
escape(text) == [i \in 1..Len(text) |-> escape_token(text[i])]

\* What each encoder writes: [kind, header, rows].
json_document(recs) == [kind |-> "json", header |-> <<>>, rows |-> recs]

\* csv.DictWriter: a missing key is written as restval "", None as "".
csv_document(recs) ==
    LET fieldnames == IF recs # <<>> THEN _get_fieldnames(recs) ELSE <<>> IN
    [kind |-> "csv",
     header |-> fieldnames,
     rows |-> [i \in 1..Len(recs) |->
                 [j \in 1..Len(fieldnames) |->
                    IF Has(recs[i], fieldnames[j])
                    THEN text_of(Get(recs[i], fieldnames[j]))
                    ELSE <<>>]]]

\* One <profile> element per record, one child per item of the record.
xml_document(recs) ==
    [kind |-> "xml",
     header |-> <<"profiles", "profile">>,
     rows |-> [i \in 1..Len(recs) |->
                 [j \in 1..Len(recs[i]) |-> <<recs[i][j][1], text_of(recs[i][j][2])>>]]]

\* The header cells are the keys of the first record.
html_document(recs) ==
    LET headers == IF recs # <<>> THEN Keys(recs[1]) ELSE <<>> IN
    [kind |-> "html",
     header |-> [j \in 1..Len(headers) |-> escape_token(headers[j])],
     rows |-> [i \in 1..Len(recs) |->
                 [j \in 1..Len(headers) |->
                    IF Has(recs[i], headers[j])
                    THEN escape(text_of(Get(recs[i], headers[j])))
                    ELSE <<>>]]]

\* The sheet "Profiles": the header row and the value rows, or nothing when
\* there is no field.
excel_document(recs) ==
    LET fieldnames == IF recs # <<>> THEN _get_fieldnames(recs) ELSE <<>> IN
    [kind |-> "excel",
     header |-> fieldnames,
     rows |-> IF fieldnames = <<>> THEN <<>>
              ELSE [i \in 1..Len(recs) |->
                      [j \in 1..Len(fieldnames) |->
                         IF Has(recs[i], fieldnames[j])
                         THEN Get(recs[i], fieldnames[j])
                         ELSE PyStr(<<>>)]]]

\* The file system an export acts on.
Disk == [files |-> files, dirs |-> dirs, error |-> NoError]
Failed(disk, exception) == [disk EXCEPT !.error = exception]

\* path.parent.mkdir(parents=True, exist_ok=True) when it does not exist
_ensure_parent_dir(disk, path) == [disk EXCEPT !.dirs = disk.dirs \cup {path.dir}]

\* Opening the destination for writing, then writing the document.
write_file(disk, path, document) ==
    IF path.name = <<>> THEN Failed(disk, "IsADirectoryError")
    ELSE IF ~writable THEN Failed(disk, "PermissionError")
    ELSE [disk EXCEPT !.files = Append(disk.files, [path |-> path, document |-> document])]

export_json(disk, recs, path) == write_file(_ensure_parent_dir(disk, path), path, json_document(recs))
export_csv(disk, recs, path) == write_file(_ensure_parent_dir(disk, path), path, csv_document(recs))
export_xml(disk, recs, path) == write_file(_ensure_parent_dir(disk, path), path, xml_document(recs))
export_html(disk, recs, path) == write_file(_ensure_parent_dir(disk, path), path, html_document(recs))

\* The import of openpyxl comes first.
export_excel(disk, recs, path) ==
    IF ~openpyxl THEN Failed(disk, "RuntimeError")
    ELSE write_file(_ensure_parent_dir(disk, path), path, excel_document(recs))

\* As export_profiles, the format checked after the parent directory is made.
export_profiles_checks_format_late(disk, recs, path, f) ==
    LET fmt_normalized == lower(f)
        made == _ensure_parent_dir(disk, path)
    IN  IF fmt_normalized \notin SUPPORTED_FORMATS THEN Failed(made, "UnsupportedFormat")
        ELSE IF fmt_normalized = <<"json">> THEN export_json(disk, recs, path)
        ELSE IF fmt_normalized = <<"csv">> THEN export_csv(disk, recs, path)
        ELSE IF fmt_normalized = <<"xml">> THEN export_xml(disk, recs, path)
        ELSE IF fmt_normalized = <<"html">> THEN export_html(disk, recs, path)
        ELSE IF lower(suffix(path)) # <<"xlsx">>
             THEN LET renamed == with_suffix_xlsx(path) IN
                  IF renamed.ok THEN export_excel(disk, recs, renamed.path)
                  ELSE Failed(disk, "ValueError")
             ELSE export_excel(disk, recs, path)

\* As export_profiles, the spreadsheet written at the path as given.
export_profiles_keeps_suffix(disk, recs, path, f) ==
    LET fmt_normalized == lower(f) IN
    IF fmt_normalized \notin SUPPORTED_FORMATS THEN Failed(disk, "UnsupportedFormat")
    ELSE IF fmt_normalized = <<"json">> THEN export_json(disk, recs, path)
    ELSE IF fmt_normalized = <<"csv">> THEN export_csv(disk, recs, path)
    ELSE IF fmt_normalized = <<"xml">> THEN export_xml(disk, recs, path)
    ELSE IF fmt_normalized = <<"html">> THEN export_html(disk, recs, path)
    ELSE export_excel(disk, recs, path)

export_profiles(disk, recs, path, f) ==
    LET fmt_normalized == lower(f) IN
    IF fmt_normalized \notin SUPPORTED_FORMATS THEN Failed(disk, "UnsupportedFormat")
    ELSE IF fmt_normalized = <<"json">> THEN export_json(disk, recs, path)
    ELSE IF fmt_normalized = <<"csv">> THEN export_csv(disk, recs, path)
    ELSE IF fmt_normalized = <<"xml">> THEN export_xml(disk, recs, path)
    ELSE IF fmt_normalized = <<"html">> THEN export_html(disk, recs, path)
    ELSE IF lower(suffix(path)) # <<"xlsx">>
         THEN LET renamed == with_suffix_xlsx(path) IN
              IF renamed.ok THEN export_excel(disk, recs, renamed.path)
              ELSE Failed(disk, "ValueError")
         ELSE export_excel(disk, recs, path)

\* ------------------------------------------------------------ idle values

NotCalled == [ok |-> FALSE, value |-> <<>>, error |-> "NotCalled"]
Epoch == [day |-> 0, sec |-> 0, us |-> 0]
NoPath == [dir |-> ".", name |-> <<>>]
NoArg == [given |-> FALSE, value |-> <<>>]
NoFile == [kind |-> "missing", data |-> <<>>]
NoInput == [exists |-> FALSE, lines |-> <<>>]

IdleValidate == raw = <<>> /\ vresult = NotCalled
IdleBatch ==
    /\ numbers = <<>> /\ media_base_url = <<>> /\ idx = 1 /\ profiles = <<>>
    /\ diagnostics = <<>> /\ refTimes = <<>>
IdleClock == now = Epoch /\ ticks = 0
IdleExport ==
    /\ records = <<>> /\ output_path = NoPath /\ fmt = <<>>
    /\ files = <<>> /\ dirs = {"."} /\ export_error = NoError
IdleWorld == sha256 = <<>> /\ openpyxl = FALSE /\ writable = FALSE
IdleMain ==
    /\ argFormat = NoArg /\ settingsFile = NoFile /\ settings = <<>>
    /\ inputFile = NoInput /\ inputRead = FALSE /\ output_format = <<>>
    /\ status = NotReturned /\ crashed = NoError

\* ------------------------------------------- a call of _validate_number

InitValidate ==
    /\ entry = "_validate_number" /\ pc = "call"
    /\ raw \in RawInputs /\ vresult = NotCalled
    /\ IdleBatch /\ IdleClock /\ IdleExport /\ IdleWorld /\ IdleMain

ValidateCall ==
    /\ pc = "call"
    /\ vresult' = _validate_number(raw)
    /\ pc' = "returned"
    /\ UNCHANGED <<entry, raw, batchVars, now, ticks, worldVars, exportArgVars,
                   output_path, fsVars, mainInVars, mainVars>>

NextValidate == ValidateCall

SpecValidate == InitValidate /\ [][NextValidate]_vars

\* --------------------------------------------- a call of build_profiles

Example == <<"1", "2", "3", "4", "5", "6", "7", "8", "9", "0">>
UKMobile == <<"4", "4", "7", "7", "0", "0", "9", "0", "0", "1", "2", "3">>
BatchRaws ==
    { Example,
      <<" ">> \o UKMobile \o <<"\n">>,
      <<"1", "2", "3", "4", "5">>,
      <<"a", "b", "c", "1", "2", "3">> }

RECURSIVE SeqsUpTo(_, _)
SeqsUpTo(S, n) ==
    IF n = 0 THEN {<<>>}
    ELSE LET shorter == SeqsUpTo(S, n - 1) IN
         shorter \cup {Append(q, x) : q \in shorter, x \in S}

Identifiers(raws) == {_validate_number(r).value : r \in {q \in raws : _validate_number(q).ok}}

DEFAULT_MEDIA_BASE_URL == <<"https://cdn.example.com/whatsapp/avatars">>
Urls == {DEFAULT_MEDIA_BASE_URL, <<"http://x", "/", "/">>}

\* The first 16 hex characters of a digest.  Three are chosen for the
\* extremes of the slices the synthesis reads.
SyntheticDigests ==
    { <<"0","0","0","0", "0","0", "0","0", "0","0","0","0", "0","0", "0","0">>,
      <<"0","1","6","c", "1","7", "3","b", "0","0","0","d", "0","1", "0","1">>,
      <<"f","f","f","f", "f","f", "f","f", "f","f","f","f", "f","f", "f","f">> }
\* sha256("1234567890") and sha256("447700900123")
ExampleDigest == <<"c","7","7","5","e","7","b","7","5","7","e","d","e","6","3","0">>
UKMobileDigest == <<"0","3","3","1","3","4","b","9","1","1","b","1","3","7","9","1">>

\* The hash tables: the digest of the example number is the real one, that
\* of the other identifier ranges over the real and the synthetic digests.
HashTables ==
    {[n \in Identifiers(BatchRaws) |-> IF n = Example THEN ExampleDigest ELSE d] :
        d \in SyntheticDigests \cup {UKMobileDigest}}

\* 2024-03-01T00:10:30.250000Z: the day after a leap day.
ClockStarts == {[day |-> days_from_civil(2024, 3, 1), sec |-> 630, us |-> 250000]}

InitBatch ==
    /\ entry = "build_profiles" /\ pc = "build_profiles"
    /\ numbers \in SeqsUpTo(BatchRaws, MaxBatch)
    /\ media_base_url \in Urls
    /\ idx = 1 /\ profiles = <<>> /\ diagnostics = <<>> /\ refTimes = <<>>
    /\ now \in ClockStarts /\ ticks = 0
    /\ sha256 \in HashTables
    /\ openpyxl = FALSE /\ writable = FALSE
    /\ IdleValidate /\ IdleExport /\ IdleMain

BuildReturn ==
    /\ entry = "build_profiles"
    /\ pc = "build_profiles"
    /\ idx > Len(numbers)
    /\ pc' = "returned"
    /\ UNCHANGED <<entry, validateVars, batchVars, now, ticks, worldVars,
                   exportArgVars, output_path, fsVars, mainInVars, mainVars>>

NextBatch == BuildStep \/ Tick \/ BuildReturn

SpecBatch == InitBatch /\ [][NextBatch]_vars

\* ------------------------------------------------------------------ runner

DEFAULTS ==
    [default_output_format |-> PyStr(<<"json">>),
     media_base_url |-> PyStr(DEFAULT_MEDIA_BASE_URL),
     rate_limit_per_minute |-> PyInt(<<"6", "0", "0">>),
     log_level |-> PyStr(<<"INFO">>)]

\* As merge, the defaults laid over the data.
merge_defaults_last(defaults, data) ==
    [k \in DOMAIN defaults \cup DOMAIN data |-> IF k \in DOMAIN defaults THEN defaults[k] ELSE data[k]]

\* {**defaults, **data}
merge(defaults, data) ==
    [k \in DOMAIN defaults \cup DOMAIN data |-> IF k \in DOMAIN data THEN data[k] ELSE defaults[k]]

\* A settings file is missing, unreadable, malformed JSON, JSON that is not
\* an object, or an object; only an object is merged over the defaults.
load_settings(file) ==
    IF file.kind = "missing" THEN DEFAULTS
    ELSE IF file.kind \in {"unreadable", "malformed"} THEN DEFAULTS
    ELSE IF file.kind = "not_object" THEN DEFAULTS
    ELSE merge(DEFAULTS, file.data)

\* settings.get(key, default)
settings_get(d, k, default) == IF k \in DOMAIN d THEN d[k] ELSE default

\* The attributes of the logging module a level name can resolve to: the
\* levels, and BASIC_FORMAT, a string that basicConfig rejects.
LoggingLevels == {<<"CRITICAL">>, <<"FATAL">>, <<"ERROR">>, <<"WARNING">>, <<"WARN">>,
                  <<"INFO">>, <<"DEBUG">>, <<"NOTSET">>}
LoggingOthers == {<<"BASIC_FORMAT">>}

\* configure_logging: the exception it raises, or NoError.
configure_logging(level_name) ==
    IF level_name.t # "str" THEN "AttributeError"
    ELSE IF upper(level_name.v) \in LoggingOthers THEN "ValueError"
    ELSE NoError

\* int(value): the exception it raises, or NoError.
int_error(value) ==
    IF value.t = "int" THEN NoError
    ELSE IF value.t = "NoneType" THEN "TypeError"
    ELSE IF strip(value.v) # <<>> /\ IsNum(strip(value.v)) THEN NoError
    ELSE "ValueError"

\* The lines read_numbers_from_file keeps.
RECURSIVE kept_lines(_)
kept_lines(lines) ==
    IF lines = <<>> THEN <<>>
    ELSE LET r == strip(Head(lines)) IN
         IF r = <<>> \/ Head(r) = "#" THEN kept_lines(Tail(lines))
         ELSE <<r>> \o kept_lines(Tail(lines))

\* As read_numbers_from_file, an input with no number let through.
read_numbers_from_file_allows_none(file) ==
    IF ~file.exists THEN [ok |-> FALSE, error |-> "FileNotFoundError", numbers |-> <<>>]
    ELSE [ok |-> TRUE, error |-> NoError, numbers |-> kept_lines(file.lines)]

read_numbers_from_file(file) ==
    IF ~file.exists THEN [ok |-> FALSE, error |-> "FileNotFoundError", numbers |-> <<>>]
    ELSE LET kept == kept_lines(file.lines) IN
         IF kept = <<>> THEN [ok |-> FALSE, error |-> "ValueError", numbers |-> <<>>]
         ELSE [ok |-> TRUE, error |-> NoError, numbers |-> kept]

\* main, lines 110-112: the settings are loaded and logging is configured.
MainLoadSettings ==
    /\ entry = "main" /\ pc = "main"
    /\ LET loaded == load_settings(settingsFile)
           failure == configure_logging(settings_get(loaded, "log_level", PyStr(<<"INFO">>)))
       IN  /\ settings' = loaded
           /\ crashed' = failure
           /\ pc' = IF failure = NoError THEN "format" ELSE "crashed"
    /\ UNCHANGED <<entry, validateVars, batchVars, now, ticks, worldVars, exportArgVars,
                   output_path, fsVars, mainInVars, inputRead, output_format, status>>

\* main, lines 119-131: the format is chosen, and refused if unsupported.
MainChooseFormat ==
    /\ entry = "main" /\ pc = "format"
    /\ LET chosen ==
             IF argFormat.given THEN lower(argFormat.value)
             ELSE lower(settings_get(settings, "default_output_format", PyStr(<<"json">>)).v)
       IN  /\ output_format' = chosen
           /\ IF chosen \notin SUPPORTED_FORMATS
              THEN status' = Returned(1) /\ pc' = "done"
              ELSE status' = status /\ pc' = "read"
    /\ UNCHANGED <<entry, validateVars, batchVars, now, ticks, worldVars, exportArgVars,
                   output_path, fsVars, mainInVars, settings, inputRead, crashed>>

\* main, lines 138-148: the input is read; the base URL and the rate limit
\* are taken from the settings.
MainReadInput ==
    /\ entry = "main" /\ pc = "read"
    /\ inputRead' = TRUE
    /\ LET got == read_numbers_from_file(inputFile)
           failure == int_error(settings_get(settings, "rate_limit_per_minute", PyInt(<<"6", "0", "0">>)))
       IN  IF ~got.ok
           THEN /\ status' = Returned(1) /\ pc' = "done"
                /\ UNCHANGED <<numbers, media_base_url, crashed>>
           ELSE /\ numbers' = got.numbers
                /\ media_base_url' = settings_get(settings, "media_base_url", PyStr(DEFAULT_MEDIA_BASE_URL)).v
                /\ crashed' = failure
                /\ pc' = IF failure = NoError THEN "build_profiles" ELSE "crashed"
                /\ status' = status
    /\ UNCHANGED <<entry, validateVars, idx, profiles, diagnostics, refTimes, now, ticks,
                   worldVars, exportArgVars, output_path, fsVars, mainInVars, settings,
                   output_format>>

\* main, lines 150-162: build_profiles has returned.
MainProfilesBuilt ==
    /\ entry = "main" /\ pc = "build_profiles"
    /\ idx > Len(numbers)
    /\ pc' = "export"
    /\ UNCHANGED <<entry, validateVars, batchVars, now, ticks, worldVars, exportArgVars,
                   output_path, fsVars, mainInVars, mainVars>>

\* main, lines 164-171: the export, and the status it decides.
MainExport ==
    /\ entry = "main" /\ pc = "export"
    /\ LET done == export_profiles(Disk, profiles, output_path, output_format) IN
       /\ files' = done.files /\ dirs' = done.dirs /\ export_error' = done.error
       /\ status' = IF done.error = NoError THEN Returned(0) ELSE Returned(1)
    /\ pc' = "done"
    /\ UNCHANGED <<entry, validateVars, batchVars, now, ticks, worldVars, exportArgVars,
                   output_path, mainInVars, settings, inputRead, output_format, crashed>>

\* A direct call of export_profiles(records, output_path, fmt).
ExportCall ==
    /\ entry = "export_profiles" /\ pc = "export_profiles"
    /\ LET done == export_profiles(Disk, records, output_path, fmt) IN
       /\ files' = done.files /\ dirs' = done.dirs /\ export_error' = done.error
    /\ pc' = "returned"
    /\ UNCHANGED <<entry, validateVars, batchVars, now, ticks, worldVars, exportArgVars,
                   output_path, mainInVars, mainVars>>

\* ------------------------- a run of main, or a call of export_profiles

\* The longest list of records handed to export_profiles.
MaxRecords == 2

\* Records of differing field sets and field orders; one holds None and
\* markup.
ExportRecords ==
    { << <<"number", PyStr(<<"1", "2", "3", "4", "5", "6">>)>>, <<"isRegistered", PyBool(FALSE)>> >>,
      << <<"number", PyStr(<<"6", "5", "4", "3", "2", "1">>)>>, <<"isRegistered", PyBool(TRUE)>>,
         <<"about", PyStr(<<"Blessed and grateful.">>)>> >>,
      << <<"about", PyNone>>, <<"number", PyStr(<<"<", "b", ">", "&">>)>> >> }

Directories == {".", "exports"}
FileNames ==
    { <<"out", "txt">>, <<"out", "xlsx">>, <<"out", "XLSX">>, <<"out">>, <<"", "hidden">>,
      <<"archive", "tar", "gz">>, <<>> }
CallFormats == SUPPORTED_FORMATS \cup {<<"pdf">>, <<"CSV">>, <<"Excel">>, <<>>}

InitExport ==
    /\ entry = "export_profiles" /\ pc = "export_profiles"
    /\ records \in SeqsUpTo(ExportRecords, MaxRecords)
    /\ output_path \in [dir : Directories, name : FileNames]
    /\ fmt \in CallFormats
    /\ files = <<>> /\ dirs = {"."} /\ export_error = NoError
    /\ sha256 = <<>> /\ openpyxl \in BOOLEAN /\ writable \in BOOLEAN
    /\ IdleValidate /\ IdleBatch /\ IdleClock /\ IdleMain

RealHashTable ==
    [n \in Identifiers(BatchRaws) |-> IF n = Example THEN ExampleDigest ELSE UKMobileDigest]

Object(data) == [kind |-> "object", data |-> data]
SettingsFiles ==
    { [kind |-> "missing", data |-> <<>>],
      [kind |-> "malformed", data |-> <<>>],
      [kind |-> "not_object", data |-> <<>>],
      Object(<<>>),
      Object([default_output_format |-> PyStr(<<"csv">>)]),
      Object([default_output_format |-> PyStr(<<"CSV">>)]),
      Object([default_output_format |-> PyStr(<<"pdf">>)]),
      Object([default_output_format |-> PyNone]),
      Object([log_level |-> PyStr(<<"debug">>)]),
      Object([log_level |-> PyInt(<<"1", "0">>)]),
      Object([rate_limit_per_minute |-> PyStr(<<"fast">>)]),
      Object([default_output_format |-> PyStr(<<"excel">>),
              media_base_url |-> PyStr(<<"http://x", "/", "/">>),
              rate_limit_per_minute |-> PyStr(<<"3", "0">>)]) }

Line(text) == text \o <<"\n">>
InputFiles ==
    { [exists |-> FALSE, lines |-> <<>>],
      [exists |-> TRUE, lines |-> <<>>],
      [exists |-> TRUE, lines |-> <<Line(<<>>), Line(<<" ", "#", " ", "a">>), Line(<<"\t">>)>>],
      [exists |-> TRUE, lines |-> <<Line(<<"#", "a">>), Line(Example), Line(<<>>), Line(UKMobile)>>],
      [exists |-> TRUE, lines |-> <<Line(<<"1", "2", "3", "4", "5">>), Line(Example),
                                   <<"a", "b", "c", "1", "2", "3">>>>],
      [exists |-> TRUE, lines |-> <<Line(<<"a", "b", "c">>)>>] }

ArgFormats ==
    {NoArg} \cup {[given |-> TRUE, value |-> f] : f \in SUPPORTED_FORMATS}

OutputPaths ==
    { [dir |-> ".", name |-> <<"out", "txt">>],
      [dir |-> "exports", name |-> <<"out", "xlsx">>] }

InitMain ==
    /\ entry = "main" /\ pc = "main"
    /\ argFormat \in ArgFormats
    /\ settingsFile \in SettingsFiles
    /\ inputFile \in InputFiles
    /\ output_path \in OutputPaths
    /\ settings = <<>> /\ inputRead = FALSE /\ output_format = <<>>
    /\ status = NotReturned /\ crashed = NoError
    /\ records = <<>> /\ fmt = <<>>
    /\ files = <<>> /\ dirs = {"."} /\ export_error = NoError
    /\ sha256 = RealHashTable /\ openpyxl \in BOOLEAN /\ writable \in BOOLEAN
    /\ now \in ClockStarts /\ ticks = 0
    /\ IdleValidate /\ IdleBatch

Init == InitMain \/ InitExport

Next ==
    \/ MainLoadSettings
    \/ MainChooseFormat
    \/ MainReadInput
    \/ BuildStep
    \/ Tick
    \/ MainProfilesBuilt
    \/ MainExport
    \/ ExportCall

Spec == Init /\ [][Next]_vars

\* ================================================================ claims

\* ---- C2 ----------------------------------------------------------------
\* The validator the claim describes: trim, then Empty, NonDigit (any
\* character that is not an ASCII digit 0-9), TooShort (< 6), TooLong (> 20),
\* in that order; otherwise the trimmed string.
C2_Described(r) ==
    LET cleaned == strip(r) IN
    IF cleaned = <<>> THEN Rejected("Empty")
    ELSE IF \E i \in 1..Len(cleaned) : cleaned[i] \notin AsciiDigits THEN Rejected("NonDigit")
    ELSE IF Len(cleaned) < 6 THEN Rejected("TooShort")
    ELSE IF Len(cleaned) > 20 THEN Rejected("TooLong")
    ELSE Accepted(cleaned)

\* C2: validate accepts a raw string exactly when its trimmed form is a
\* non-empty string of ASCII digits of length 6 to 20, returning the trimmed
\* string, and otherwise fails with the first failing rule among Empty,
\* NonDigit, TooShort, TooLong.
C2_ValidateAsDescribed ==
    pc = "returned" => vresult = C2_Described(raw)

\* ---- C3 ----------------------------------------------------------------
C3_Valid(r) == _validate_number(r).ok
C3_Invalid(r) == ~_validate_number(r).ok
C3_Processed == SubSeq(numbers, 1, idx - 1)
C3_ProfileNumbers == [i \in 1..Len(profiles) |-> Get(profiles[i], "number").v]
C3_DiagnosticInputs == [i \in 1..Len(diagnostics) |-> diagnostics[i].input]

\* C3: batch assembly never aborts; the profiles are exactly the valid inputs
\* in input order, duplicates kept, every invalid input yields exactly one
\* diagnostic (the input and the reason it failed) and no profile, so
\* #profiles + #diagnostics = #inputs, and a batch of invalid inputs returns
\* an empty profile list.
C3_BatchKeepsValidInputsInOrder ==
    LET validIn == SelectSeq(C3_Processed, C3_Valid)
        invalidIn == SelectSeq(C3_Processed, C3_Invalid)
    IN  entry = "build_profiles" =>
        /\ C3_ProfileNumbers = [i \in 1..Len(validIn) |-> strip(validIn[i])]
        /\ C3_DiagnosticInputs = invalidIn
        /\ \A i \in 1..Len(diagnostics) :
             diagnostics[i].reason = _validate_number(diagnostics[i].input).error
        /\ Len(profiles) + Len(diagnostics) = idx - 1
        /\ pc \in {"build_profiles", "returned"}
        /\ idx <= Len(numbers) + 1
        /\ pc = "returned" => idx - 1 = Len(numbers)

\* The batch of the specification returned one profile and two diagnostics;
\* some batch returned a duplicate twice.
C3_Witness ==
    /\ pc = "returned"
    /\ numbers = << <<"1", "2", "3", "4", "5">>, Example, <<"a", "b", "c", "1", "2", "3">> >>
    /\ Len(profiles) = 1 /\ Len(diagnostics) = 2

\* ---- C4 ----------------------------------------------------------------
C4_Hex(h, i) == HexVal(h[i + 1])
C4_Registered(h) == (16 * C4_Hex(h, 12) + C4_Hex(h, 13)) % 3 # 0
C4_AboutIndex(h) ==
    (4096 * C4_Hex(h, 8) + 256 * C4_Hex(h, 9) + 16 * C4_Hex(h, 10) + C4_Hex(h, 11)) % 8
\* The url without its trailing slashes.
C4_Stripped(url) ==
    LET k == CHOOSE k \in 0..Len(url) :
                 /\ \A i \in (k + 1)..Len(url) : url[i] = "/"
                 /\ k > 0 => url[k] # "/"
    IN  SubSeq(url, 1, k)

\* C4: a profile that is not registered has an empty about and an empty
\* picture; it is registered exactly when hex [12:14) mod 3 is not zero, and
\* then about is the template at hex [8:12) mod the number of templates and
\* the picture is the base URL without trailing slash, "/", the first 16 hex
\* characters and ".jpg".
C4_ProfileFieldsFollowDigest ==
    \A i \in 1..Len(profiles) :
        LET p == profiles[i]
            h == sha256[Get(p, "number").v]
        IN  /\ Get(p, "is_registered") = PyBool(C4_Registered(h))
            /\ ~C4_Registered(h) =>
                 /\ Get(p, "about").v = <<>>
                 /\ Get(p, "profile_picture").v = <<>>
            /\ C4_Registered(h) =>
                 /\ Get(p, "about").v = ABOUT_TEMPLATES[C4_AboutIndex(h) + 1]
                 /\ Get(p, "profile_picture").v =
                      C4_Stripped(media_base_url) \o <<"/">> \o SubSeq(h, 1, 16) \o <<".jpg">>

\* A registered and an unregistered profile, under a base URL that ends in
\* slashes.
C4_Witness ==
    /\ media_base_url = <<"http://x", "/", "/">>
    /\ \E i, j \in 1..Len(profiles) :
         /\ Get(profiles[i], "is_registered") = PyBool(TRUE)
         /\ Get(profiles[i], "profile_picture").v[2] = "/"
         /\ Get(profiles[i], "profile_picture").v[3] = "c"
         /\ Get(profiles[j], "is_registered") = PyBool(FALSE)

\* ---- C8 ----------------------------------------------------------------
C8_TimeFree == {"number", "is_registered", "profile_picture", "about", "account_type"}
C8_Minutes(dt) == dt.day * 1440 + dt.sec \div 60
C8_Ago(h) ==
    ((4096 * C4_Hex(h, 0) + 256 * C4_Hex(h, 1) + 16 * C4_Hex(h, 2) + C4_Hex(h, 3)) % 365) * 1440
      + ((16 * C4_Hex(h, 4) + C4_Hex(h, 5)) % 24) * 60
      + ((16 * C4_Hex(h, 6) + C4_Hex(h, 7)) % 60)

C1_Exported == IF entry = "main" THEN profiles ELSE records
C1_AllKeys(recs) == UNION {KeySet(recs[i]) : i \in 1..Len(recs)}
\* Where a field name is first seen: the record, then the place in it.
C1_FirstSeen(recs, k) ==
    LET i == CHOOSE i \in 1..Len(recs) :
                 /\ Has(recs[i], k)
                 /\ \A e \in 1..(i - 1) : ~Has(recs[e], k)
        j == CHOOSE j \in 1..Len(recs[i]) : recs[i][j][1] = k
    IN  i * 1000 + j
\* The field names of all the records, each once, in first-seen order.
C1_Union(recs) ==
    LET ks == C1_AllKeys(recs) IN
    CHOOSE u \in [1..Cardinality(ks) -> ks] :
        \A a, b \in 1..Cardinality(ks) :
            a < b => C1_FirstSeen(recs, u[a]) < C1_FirstSeen(recs, u[b])
C1_Cell(rec, k) == IF Has(rec, k) THEN text_of(Get(rec, k)) ELSE <<>>

\* C1: a CSV, XML or HTML export lays every record out by one field order,
\* the first-seen union of the field names of the batch: every field is a
\* column or element of every row, empty where the record lacks it.
C1_UnionFieldOrderInEveryExport ==
    \A n \in 1..Len(files) :
        LET doc == files[n].document
            recs == C1_Exported
            u == C1_Union(recs)
        IN  /\ doc.kind = "csv" =>
                 /\ doc.header = u
                 /\ \A i \in 1..Len(recs) :
                      doc.rows[i] = [j \in 1..Len(u) |-> C1_Cell(recs[i], u[j])]
            /\ doc.kind = "html" =>
                 /\ doc.header = [j \in 1..Len(u) |-> escape_token(u[j])]
                 /\ \A i \in 1..Len(recs) :
                      doc.rows[i] = [j \in 1..Len(u) |-> escape(C1_Cell(recs[i], u[j]))]
            /\ doc.kind = "xml" =>
                 \A i \in 1..Len(recs) :
                      doc.rows[i] = [j \in 1..Len(u) |-> <<u[j], C1_Cell(recs[i], u[j])>>]

\* ---- C5 ----------------------------------------------------------------
\* C5: an unsupported format is refused before any effect: export_profiles
\* fails with UnsupportedFormat and creates no directory and no file; a run
\* of main whose chosen format is unsupported returns a nonzero status
\* without reading the input, synthesizing a record or writing anything.
\* (Format names are compared without regard to case.)
C5_UnsupportedFormatRejectedBeforeAnyEffect ==
    /\ (entry = "export_profiles" /\ pc = "returned" /\ lower(fmt) \notin SUPPORTED_FORMATS) =>
         /\ export_error = "UnsupportedFormat"
         /\ files = <<>>
         /\ dirs = {"."}
    /\ (entry = "export_profiles" /\ pc = "returned" /\ lower(fmt) \in SUPPORTED_FORMATS) =>
         export_error # "UnsupportedFormat"
    /\ (entry = "main" /\ output_format # <<>> /\ output_format \notin SUPPORTED_FORMATS) =>
         /\ pc = "done"
         /\ status.returned /\ status.code # 0
         /\ ~inputRead
         /\ numbers = <<>> /\ idx = 1 /\ profiles = <<>> /\ diagnostics = <<>>
         /\ files = <<>>
         /\ dirs = {"."}

\* export_profiles was called with "pdf" and a destination in a directory
\* that does not exist.
C5_Witness ==
    /\ entry = "export_profiles" /\ pc = "returned"
    /\ fmt = <<"pdf">>
    /\ output_path.dir = "exports"
    /\ writable
    /\ records # <<>>
    /\ export_error = "UnsupportedFormat"

\* ---- C6 ----------------------------------------------------------------
C6_Format == IF entry = "main" THEN output_format ELSE fmt
C6_Completed ==
    \/ entry = "main" /\ pc = "done" /\ status = Returned(0)
    \/ entry = "export_profiles" /\ pc = "returned" /\ export_error = NoError
\* The extension of a file name: what follows its last dot, when something
\* does and something other than a lone leading dot precedes it.
C6_Extension(name) ==
    IF Len(name) >= 2 /\ name[Len(name)] # "" /\ SubSeq(name, 1, Len(name) - 1) # <<"">>
    THEN <<name[Len(name)]>>
    ELSE <<>>
C6_Stem(name) == IF C6_Extension(name) = <<>> THEN name ELSE SubSeq(name, 1, Len(name) - 1)
C6_IsXlsx(name) == C6_Extension(name) \in {<<"xlsx">>, <<"XLSX">>}
C6_Destination ==
    IF lower(C6_Format) = <<"excel">> /\ ~C6_IsXlsx(output_path.name)
    THEN [dir |-> output_path.dir, name |-> C6_Stem(output_path.name) \o <<"xlsx">>]
    ELSE output_path

\* C6: a completed export has written exactly one file: for excel at the
\* destination with its extension replaced by .xlsx unless that is its
\* extension already (in either case of letters), and nothing at the path as
\* given; for every other format at exactly the destination given.
C6_OneFileAtTheDestination ==
    /\ Len(files) <= 1
    /\ C6_Completed => Len(files) = 1 /\ files[1].path = C6_Destination
    /\ C6_Completed => files[1].document.kind = lower(C6_Format)[1]

\* out.txt exported as excel is written at out.xlsx.
C6_Witness ==
    /\ entry = "export_profiles" /\ pc = "returned" /\ export_error = NoError
    /\ fmt = <<"excel">>
    /\ output_path.name = <<"out", "txt">>
    /\ Len(files) = 1
    /\ files[1].path.name = <<"out", "xlsx">>

\* ---- C7 ----------------------------------------------------------------
\* The format the precedence rule names, from the arguments and the settings
\* file as it is on disk.
C7_ByPrecedence ==
    IF argFormat.given THEN argFormat.value
    ELSE IF settingsFile.kind = "object" /\ "default_output_format" \in DOMAIN settingsFile.data
         THEN settingsFile.data["default_output_format"].v
         ELSE <<"json">>

\* C7: the format of a run is the format argument when given, else the
\* default_output_format of the settings, else json, whether the settings
\* file is missing, malformed or valid, with or without the option.  (The
\* name is folded to lower case.)
C7_FormatChosenByPrecedence ==
    (entry = "main" /\ pc \in {"read", "build_profiles", "export", "done"}) =>
        output_format = lower(C7_ByPrecedence)

\* A run without --format under settings that say csv has written CSV.
C7_Witness ==
    /\ entry = "main" /\ pc = "done" /\ status = Returned(0)
    /\ ~argFormat.given
    /\ settingsFile.kind = "object"
    /\ "default_output_format" \in DOMAIN settingsFile.data
    /\ settingsFile.data["default_output_format"] = PyStr(<<"CSV">>)
    /\ output_format = <<"csv">>
    /\ Len(files) = 1 /\ files[1].document.kind = "csv"

\* ---- C9 ----------------------------------------------------------------
\* The lines of the input that are neither blank nor comments.
C9_Usable ==
    {i \in 1..Len(inputFile.lines) :
        LET r == strip(inputFile.lines[i]) IN r # <<>> /\ r[1] # "#"}
C9_InputFails == ~inputFile.exists \/ C9_Usable = {}

\* C9: when the input file is missing or holds no usable identifier, the run
\* returns a nonzero status, synthesizes no profile and writes no file;
\* synthesis and export happen only after the input has yielded at least one
\* usable identifier.
C9_InputFailuresFatalBeforeSynthesis ==
    entry = "main" =>
      /\ C9_InputFails =>
           /\ pc \notin {"build_profiles", "export"}
           /\ idx = 1 /\ profiles = <<>> /\ diagnostics = <<>>
           /\ files = <<>> /\ dirs = {"."}
           /\ status.returned => status.code # 0
           /\ inputRead => pc = "done" /\ status.returned
      /\ (pc \in {"build_profiles", "export"} \/ idx > 1 \/ profiles # <<>> \/ files # <<>>) =>
           /\ inputRead
           /\ inputFile.exists
           /\ C9_Usable # {}
           /\ Len(numbers) = Cardinality(C9_Usable)

\* An input of blank lines and comments only was read and the run failed.
C9_Witness ==
    /\ entry = "main" /\ pc = "done"
    /\ inputRead
    /\ inputFile.exists /\ inputFile.lines # <<>> /\ C9_Usable = {}
    /\ status = Returned(1)

\* ---- C10 ---------------------------------------------------------------
\* C10: every run of main ends by returning a status and no failure escapes
\* it as an unhandled error: validation and configuration failures are
\* absorbed, every other failure yields a nonzero status, and the status is
\* 0 exactly when the export completed.
C10_MainAlwaysReturnsStatus ==
    entry = "main" =>
      /\ crashed = NoError
      /\ pc # "crashed"
      /\ status.returned =>
           (status.code = 0 <=> (export_error = NoError /\ Len(files) = 1))

====
